---- MODULE Spec2Model ----
(***************************************************************************)
(* The provider-forwarding gateway of COD-LLMs-2: seven serverless         *)
(* handlers that forward a chat or search request to an upstream provider. *)
(*                                                                         *)
(*   groq_netlify  src/netlify/functions /api-proxy.js  (Groq, retry loop) *)
(*   groq_part3    src/unnamed/part_003                 (Groq, retry loop) *)
(*   fw_buffered   src/api/proxy.js, first export       (Fireworks)        *)
(*   fw_stream     src/api/streaming.js                 (Fireworks relay)  *)
(*   openai_stream src/api/proxy.js, second export      (OpenAI relay)     *)
(*   pplx_part0    src/unnamed/part_000                 (Perplexity)       *)
(*   pplx_part1    src/unnamed/part_001                 (Perplexity)       *)
(*                                                                         *)
(* One inbound request is handled per behaviour: no state is shared        *)
(* between requests.  Every await of the code is a step of the model.      *)
(***************************************************************************)
EXTENDS Integers, Sequences, FiniteSets, TLC

VARIABLES
    handler,    \* which entry point received the request
    request,    \* the inbound request: [method, parses, body]
    apiKey,     \* the provider's key in the environment ("" when not set)
    pc,         \* where the handler is suspended
    payload,    \* the JSON body of the outbound call
    calls,      \* outbound fetch calls issued so far
    script,     \* what the upstream answers to the 1st, 2nd, ... call
    deadline,   \* the timer on the outbound call: "none", "armed", "cleared",
                \* "unheeded" (running, the race it was in is over), "fired"
    body,       \* the kind of body of the latest upstream response
    data,       \* `data`: the upstream's JSON document, once a handler that
                \* looks into it has parsed it
    retries,    \* `retries` of the retry loops
    response,   \* `response`: the latest upstream response (status line)
    lastError,  \* `lastError` of part_003 / the error thrown to the catch
    waits,      \* the backoff waits performed, in ms, oldest first
    reply,      \* the response returned to the client
    up,         \* chunks the upstream body has yielded so far, in order
    upState,    \* the upstream body: "none", "open", "ended", "failed"
    issued,     \* every operation the relay has called on the outbound
                \* writer, in order, whether the writer accepted it or not
    wq,         \* operations queued on the outbound writer, not yet done
    out,        \* what the outbound stream has delivered to the client
    wstate      \* the outbound stream: "none", "open", "closed", "errored"

retryVars == <<script, retries, response, lastError, waits>>
relayVars == <<up, upState, issued, wq, out, wstate>>
vars == <<handler, request, apiKey, pc, payload, calls, deadline, body, data, reply,
          retryVars, relayVars>>

-----------------------------------------------------------------------------
(* Inputs *)

GroqHandlers == {"groq_netlify", "groq_part3"}
StreamHandlers == {"fw_stream", "openai_stream"}
PplxHandlers == {"pplx_part0", "pplx_part1"}
BufferedHandlers == GroqHandlers \cup PplxHandlers \cup {"fw_buffered"}
Handlers == BufferedHandlers \cup StreamHandlers

Methods == {"OPTIONS", "GET", "POST"}
ApiKeys == {"", "key_live_1"}

UserMessage == [role |-> "user", content |-> "Hello"]

ToolSpec == [type |-> "function", name |-> "get_weather"]

\* Parsed request bodies: a field the client left out is not in the DOMAIN.
Bodies ==
    { [model |-> "qwen-qwq-32b", messages |-> <<UserMessage>>],
      [model |-> "qwen-qwq-32b"],
      [model |-> "qwen-qwq-32b", messages |-> <<>>],
      [model |-> "mixtral-8x7b-32768", messages |-> <<UserMessage>>,
       max_tokens |-> 50000, stream |-> TRUE],
      [model |-> "qwen-qwq-32b", messages |-> <<UserMessage>>, max_tokens |-> 100],
      [model |-> "qwen-qwq-32b", messages |-> <<UserMessage>>, max_tokens |-> 0],
      [model |-> "qwen-qwq-32b", messages |-> <<UserMessage>>, max_tokens |-> -5],
      [model |-> "qwen-qwq-32b", messages |-> <<UserMessage>>, stream |-> FALSE],
      [model |-> "qwen-qwq-32b", messages |-> <<UserMessage>>,
       temperature |-> 0, top_p |-> 0],
      [model |-> "qwen-qwq-32b", messages |-> <<UserMessage>>,
       tools |-> <<ToolSpec>>, tool_choice |-> "auto"],
      [model |-> "qwen-qwq-32b", messages |-> <<UserMessage>>,
       tools |-> <<>>, tool_choice |-> "required"],
      [model |-> "qwen-qwq-32b", messages |-> <<UserMessage>>,
       tools |-> <<ToolSpec>>, tool_choice |-> ""],
      [query |-> "what is tla+"],
      [query |-> ""] }

NoBody == [model |-> "none"]

\* A body that is the text `abort`: not JSON, and the parser's message quotes
\* it.
AbortTextBody == [text |-> "abort"]

Requests ==
    {[method |-> "POST", parses |-> TRUE, body |-> b] : b \in Bodies}
    \cup {[method |-> "POST", parses |-> FALSE, body |-> b] : b \in {NoBody, AbortTextBody}}
    \cup {[method |-> m, parses |-> TRUE, body |-> NoBody] : m \in Methods \ {"POST"}}

Has(b, f) == f \in DOMAIN b

\* Upstream HTTP statuses the model lets the provider answer.
Statuses == {200, 400, 401, 404, 429, 500, 502, 503, 504}

\* What one outbound call ends in: a response with a status, a transport
\* failure (fetch rejects), or the abort timer firing (fetch rejects with
\* AbortError).
Outcomes ==
    {[kind |-> "status", status |-> s] : s \in Statuses}
    \cup {[kind |-> "throw", status |-> 0], [kind |-> "abort", status |-> 0]}

\* Kinds of upstream response body: a JSON document with an error.message,
\* one whose error.message is empty, one whose error.message speaks of the
\* token limit; text that is not JSON, with and without the word `abort`; or
\* nothing at all.
BodyKinds == {"json", "json_nomsg", "json_token", "text", "text_abort", "empty"}
JsonMsg == "model overloaded"
TokenLimitMsg == "Request exceeds the token limit of this model"
RawText == "Bad Gateway"
RawAbortText == "aborted by upstream"
RawJsonText == "{\"error\":{\"message\":\"model overloaded\"}}"

\* JSON.parse of the body text succeeds.
IsJson(kind) == kind \in {"json", "json_nomsg", "json_token"}

\* The text of the body, as response.text() gives it.
BodyText(kind) ==
    CASE kind = "json" -> RawJsonText
      [] kind = "json_nomsg" -> "{\"error\":{\"message\":\"\"}}"
      [] kind = "json_token" ->
            "{\"error\":{\"message\":\"Request exceeds the token limit of this model\"}}"
      [] kind = "text" -> RawText
      [] kind = "text_abort" -> RawAbortText
      [] OTHER -> ""

\* `parsedError.error?.message` of a JSON body.
ParsedErrorMessage(kind) ==
    CASE kind = "json" -> JsonMsg
      [] kind = "json_token" -> TokenLimitMsg
      [] OTHER -> ""

NoResponse == [kind |-> "none", status |-> 0]
NoData == [none |-> TRUE]
NoError == [name |-> "", message |-> ""]
NoReply == [status |-> 0, ctype |-> "", error |-> "", message |-> "", data |-> "none"]

TransportError == [name |-> "FetchError", message |-> "request to upstream failed, reason: ECONNRESET"]
AbortError == [name |-> "AbortError", message |-> "The user aborted a request."]
JsonParseError == [name |-> "FetchError", message |-> "invalid json response body"]
AbortTextParseError ==
    [name |-> "FetchError",
     message |-> "invalid json response body: \"aborted by upstream\" is not valid JSON"]
BodySyntaxError == [name |-> "SyntaxError", message |-> "Unexpected token in JSON"]
AbortBodySyntaxError ==
    [name |-> "SyntaxError",
     message |-> "Unexpected token 'a', \"abort\" is not valid JSON"]

\* What response.json() rejects with for a body that is not JSON: the
\* message quotes the text.
JsonParseErrorOf(kind) == IF kind = "text_abort" THEN AbortTextParseError ELSE JsonParseError

\* What parsing the request body throws.
BodyParseError(b) == IF b = AbortTextBody THEN AbortBodySyntaxError ELSE BodySyntaxError

\* String.prototype.includes, over the texts the handlers apply it to.
Includes(text, word) ==
    <<text, word>> \in {<<TokenLimitMsg, "token">>, <<TokenLimitMsg, "limit">>,
                        <<AbortError.message, "abort">>,
                        <<AbortTextParseError.message, "abort">>,
                        <<AbortBodySyntaxError.message, "abort">>}

\* `error.message || dflt`
MessageOr(err, dflt) == IF err.message = "" THEN dflt ELSE err.message

KeyMissing_Never(k) == FALSE

\* `if (!apiKey)`: the environment variable is unset or empty.
KeyMissing(k) == k = ""

\* response.ok
Ok(status) == status >= 200 /\ status <= 299

-----------------------------------------------------------------------------
(* Retry policy of the two Groq handlers *)

MaxRetries == 3
BackoffUnit == 3000

LoopContinues_OffByOne(r) == r >= 0

\* `while (retries > 0)`
LoopContinues(r) == r > 0

Backoff_Exponential(r) ==
    CASE r = 2 -> BackoffUnit
      [] r = 1 -> 2 * BackoffUnit
      [] OTHER -> 4 * BackoffUnit

Backoff_Remaining(r) == r * BackoffUnit

\* `(3 - retries) * 3000`, evaluated after `retries--`
Backoff(r) == (3 - r) * BackoffUnit

IsRetryableStatus_Only502(s) == s = 502

IsRetryableStatus_AnyError(s) == s >= 400

\* groq_netlify: `response.status === 502 || response.status === 504`
IsRetryableStatus(s) == s = 502 \/ s = 504

Scripts == [1..MaxRetries -> Outcomes]


-----------------------------------------------------------------------------
(* Outbound payloads.  Numbers with a fraction are kept in tenths. *)

INTERFACE_MODELS ==
    {"qwen-2.5-coder-32b", "llama-3.3-70b-versatile", "mixtral-8x7b-32768",
     "qwen-qwq-32b", "llama-3.2-90b-vision-preview"}

MODEL_MAP(m) ==
    IF m = "mixtral-8x7b-32768" THEN "mixtral-8x7b-32768" ELSE "llama-3-70b-chat"

GroqTokenCeiling == 32000
NetlifyDefaultMaxTokens == 4096
Part3DefaultMaxTokens == 8192
Part3DefaultTemperature == 7
Part3DefaultModel == "deepseek-r1-distill-qwen-32b"

\* JavaScript truthiness of a numeric field: absent and 0 are falsy.
TruthyNum(b, f) == Has(b, f) /\ b[f] # 0

Min(a, b) == IF a < b THEN a ELSE b
Max(a, b) == IF a > b THEN a ELSE b

\* groq_netlify sends the parsed request body itself, after rewriting
\* `model` and `max_tokens` in place.
NetlifyMaxTokens(b) ==
    LET capped == IF TruthyNum(b, "max_tokens") /\ b.max_tokens > GroqTokenCeiling
                  THEN GroqTokenCeiling
                  ELSE IF Has(b, "max_tokens") THEN b.max_tokens ELSE 0
    IN  IF capped = 0 THEN NetlifyDefaultMaxTokens ELSE capped

NetlifyPayload(b) ==
    [f \in DOMAIN b \cup {"max_tokens"} |->
        CASE f = "model" ->
                IF b.model \in INTERFACE_MODELS THEN MODEL_MAP(b.model) ELSE b.model
          [] f = "max_tokens" -> NetlifyMaxTokens(b)
          [] OTHER -> b[f]]

\* part_003 builds `params` from ten named fields and deletes the ones that
\* came out null or undefined.
Part3Fields ==
    {"model", "messages", "max_tokens", "temperature", "top_p", "n", "stream",
     "stop", "presence_penalty", "frequency_penalty"}

Part3Payload(b) ==
    [f \in {g \in Part3Fields :
                g \in {"model", "max_tokens", "temperature"} \/ Has(b, g)} |->
        CASE f = "model" ->
                IF Has(b, "model") /\ b.model # "" THEN b.model ELSE Part3DefaultModel
          [] f = "max_tokens" ->
                Min(IF TruthyNum(b, "max_tokens") THEN b.max_tokens
                    ELSE Part3DefaultMaxTokens, GroqTokenCeiling)
          [] f = "temperature" ->
                IF TruthyNum(b, "temperature") THEN b.temperature
                ELSE Part3DefaultTemperature
          [] OTHER -> b[f]]

NoPayload == [none |-> TRUE]

-----------------------------------------------------------------------------
(* Replies of the Groq handlers *)

JsonReply(st, err, msg) ==
    [status |-> st, ctype |-> "application/json", error |-> err, message |-> msg,
     data |-> "none"]

\* A 200 reply whose body is the upstream's JSON document, re-encoded.
UpstreamReply ==
    [status |-> 200, ctype |-> "application/json", error |-> "", message |-> "",
     data |-> "upstream"]

\* Response headers, kept for the replies of the method gate: a function
\* from header names to values.
JsonHeaders ==
    ("Content-Type" :> "application/json") @@ ("Access-Control-Allow-Origin" :> "*")

JsonHeadersWithAllow == JsonHeaders @@ ("Allow" :> "POST")

NetlifyPreflightHeaders ==
    ("Access-Control-Allow-Origin" :> "*")
    @@ ("Access-Control-Allow-Headers" :> "Content-Type")
    @@ ("Access-Control-Allow-Methods" :> "POST, OPTIONS")

\* `corsHeaders` of part_003, sent with every response of that handler.
Part3CorsHeaders ==
    ("Access-Control-Allow-Origin" :> "*")
    @@ ("Access-Control-Allow-Headers" :> "Content-Type, Authorization")
    @@ ("Access-Control-Allow-Methods" :> "POST, OPTIONS")
    @@ ("Content-Type" :> "application/json")

\* The preflight headers of the four edge handlers.
EdgePreflightHeaders ==
    ("Access-Control-Allow-Origin" :> "*")
    @@ ("Access-Control-Allow-Methods" :> "GET, POST, OPTIONS")
    @@ ("Access-Control-Allow-Headers" :> "Content-Type, Authorization")
    @@ ("Access-Control-Max-Age" :> "86400")

Pplx0PreflightHeaders ==
    ("Access-Control-Allow-Origin" :> "*")
    @@ ("Access-Control-Allow-Headers" :> "Content-Type, Authorization")
    @@ ("Access-Control-Allow-Methods" :> "POST, OPTIONS")

WithHeaders(r, hs) ==
    [f \in DOMAIN r \cup {"headers"} |-> IF f = "headers" THEN hs ELSE r[f]]

\* The reply to OPTIONS: an empty body under the given headers; its content
\* type is the Content-Type among them, if any.
PreflightReply(st, hs) ==
    WithHeaders([status |-> st,
                 ctype |-> IF "Content-Type" \in DOMAIN hs THEN hs["Content-Type"] ELSE "",
                 error |-> "", message |-> "", data |-> "none"], hs)

MethodNotAllowed(hs) == WithHeaders(JsonReply(405, "Method Not Allowed", ""), hs)

\* The text an error status carries, as the Groq handlers and the buffered
\* Fireworks handler read it: `error.message || 'Unknown API error'` of a
\* JSON body; when the body is not JSON, the raw text, or `Error <status>`
\* for an empty one.
UpstreamErrorText(st, kind) ==
    IF IsJson(kind)
    THEN IF ParsedErrorMessage(kind) = "" THEN "Unknown API error"
         ELSE ParsedErrorMessage(kind)
    ELSE IF BodyText(kind) = "" THEN "Error " \o ToString(st)
         ELSE BodyText(kind)

\* groq_netlify rewrites a parsed message that speaks of `token` and `limit`
\* (lines 169-171).
NetlifyParsedText(st, kind) ==
    LET errorMessage == UpstreamErrorText(st, kind)
    IN  IF IsJson(kind) /\ Includes(errorMessage, "token") /\ Includes(errorMessage, "limit")
        THEN "Token limit exceeded. Try reducing the max_tokens value or using a different model."
        ELSE errorMessage

NetlifyErrorMessage(st, kind, pay) ==
    CASE st = 401 -> "Authentication failed. Please check your API key in Netlify environment variables."
      [] st = 404 -> "Model not found. The model \"" \o
                     (IF Has(pay, "model") THEN pay.model ELSE "undefined") \o
                     "\" may not be available. Try one of the Groq supported models like \"llama-3-70b-chat\"."
      [] st = 429 -> "Rate limit exceeded. Please try again later."
      [] st = 504 -> "Request timed out. Try reducing the max_tokens value."
      [] OTHER -> NetlifyParsedText(st, kind)

\* The outer catch of groq_netlify: always 500; an AbortError, or any error
\* whose message contains `abort`, is reported as a timeout.
NetlifyCatch(err) ==
    LET errorMessage == MessageOr(err, "Unknown error occurred")
    IN  JsonReply(500,
                  IF err.name = "AbortError" \/ Includes(errorMessage, "abort")
                  THEN "Request timed out. Try reducing the max_tokens value."
                  ELSE errorMessage,
                  "")

\* groq_netlify after the retry loop (lines 150-225).
NetlifyAfterLoop(resp, kind, pay) ==
    IF resp.kind = "none"
    THEN NetlifyCatch([name |-> "Error",
                       message |-> "Failed to get response from Groq API after multiple attempts"])
    ELSE IF ~Ok(resp.status)
    THEN JsonReply(resp.status, "Groq API error: " \o ToString(resp.status),
                   NetlifyErrorMessage(resp.status, kind, pay))
    ELSE IF IsJson(kind) THEN UpstreamReply
    ELSE NetlifyCatch(JsonParseErrorOf(kind))

\* part_003 after the retry loop (lines 169-185): always 500.
Part3Exhausted(err) == JsonReply(500, "Request failed", err.message)

Part3Unauthorized ==
    JsonReply(401, "Authentication failed", "Invalid API key. Please check your GROQ_API_KEY.")

Part3NotFound(pay) ==
    JsonReply(404, "Model not found", "The model \"" \o pay.model \o "\" is not available.")

UpstreamFailure(o) == IF o.kind = "abort" THEN AbortError ELSE TransportError

-----------------------------------------------------------------------------
(* The Groq handler of netlify/functions/api-proxy.js *)

NetlifyRethrows_Never(err, r) == FALSE

NetlifyRethrows_OnAbort(err, r) == r = 0 \/ err.name = "AbortError"

\* The retry loop's catch rethrows when no retry is left:
\* `if (retries === 0) throw fetchError`.
NetlifyRethrows(err, r) == r = 0

\* Handler entry up to the first suspension: method gate, key check, body
\* parse, model and max_tokens rewriting, and the first pass of
\* `while (retries > 0)`, which arms the 60 s timer and sends the first fetch.
NetlifyReceive ==
    /\ pc = "start"
    /\ handler = "groq_netlify"
    /\ UNCHANGED <<handler, request, apiKey, data, body, response, lastError, waits, relayVars>>
    /\ IF request.method = "OPTIONS" THEN
            /\ reply' = PreflightReply(200, NetlifyPreflightHeaders)
            /\ pc' = "done"
            /\ UNCHANGED <<payload, calls, deadline, script, retries>>
       ELSE IF request.method # "POST" THEN
            /\ reply' = MethodNotAllowed(JsonHeaders)
            /\ pc' = "done"
            /\ UNCHANGED <<payload, calls, deadline, script, retries>>
       ELSE IF KeyMissing(apiKey) THEN
            /\ reply' = JsonReply(500, "API key not configured",
                                  "Please set GROQ_API_KEY in your Netlify environment variables")
            /\ pc' = "done"
            /\ UNCHANGED <<payload, calls, deadline, script, retries>>
       ELSE IF ~request.parses THEN
            /\ reply' = NetlifyCatch(BodyParseError(request.body))
            /\ pc' = "done"
            /\ UNCHANGED <<payload, calls, deadline, script, retries>>
       ELSE
            /\ payload' = NetlifyPayload(request.body)
            /\ retries' = MaxRetries
            /\ calls' = 1
            /\ deadline' = "armed"
            /\ script' \in Scripts
            /\ pc' = "fetch"
            /\ UNCHANGED reply

\* The in-flight fetch settles (lines 118-147): the upstream answers the
\* call as its script says.  A response clears the timer; a 502/504 is
\* retried without its body being read, any other status leaves the loop for
\* the body read after it.  A fetch that throws leaves its timer running.
NetlifyFetchSettles ==
    /\ pc = "fetch"
    /\ handler = "groq_netlify"
    /\ calls \in DOMAIN script
    /\ UNCHANGED <<handler, request, apiKey, data, payload, calls, script, body,
                   lastError, relayVars>>
    /\ LET o == script[calls] IN
       IF o.kind = "status" THEN
            /\ response' = o
            /\ deadline' = "cleared"
            /\ IF IsRetryableStatus(o.status) THEN
                    /\ retries' = retries - 1
                    /\ waits' = Append(waits, Backoff(retries'))
                    /\ pc' = "sleep"
                    /\ UNCHANGED reply
               ELSE
                    /\ pc' = "body"
                    /\ UNCHANGED <<retries, waits, reply>>
       ELSE
            /\ retries' = retries - 1
            /\ deadline' = IF o.kind = "abort" THEN "fired" ELSE deadline
            /\ UNCHANGED response
            /\ IF NetlifyRethrows(UpstreamFailure(o), retries') THEN
                    /\ reply' = NetlifyCatch(UpstreamFailure(o))
                    /\ pc' = "done"
                    /\ UNCHANGED waits
               ELSE
                    /\ waits' = Append(waits, Backoff(retries'))
                    /\ pc' = "sleep"
                    /\ UNCHANGED reply

\* A backoff wait ends: the loop condition is tested again, and either the
\* next fetch goes out under a new timer, or the code after the loop runs up
\* to its read of the response body.
NetlifySleepElapses ==
    /\ pc = "sleep"
    /\ handler = "groq_netlify"
    /\ UNCHANGED <<handler, request, apiKey, data, payload, script, body, retries,
                   response, lastError, waits, relayVars>>
    /\ IF LoopContinues(retries) THEN
            /\ calls' = calls + 1
            /\ deadline' = "armed"
            /\ pc' = "fetch"
            /\ UNCHANGED reply
       ELSE IF response.kind = "none" THEN
            /\ reply' = NetlifyAfterLoop(response, body, payload)
            /\ pc' = "done"
            /\ UNCHANGED <<calls, deadline>>
       ELSE
            /\ pc' = "body"
            /\ UNCHANGED <<calls, deadline, reply>>

\* `await response.text()` / `await response.json()` after the loop settles
\* (lines 156-225); no timer is running while the body is awaited.
NetlifyBodySettles ==
    /\ pc = "body"
    /\ handler = "groq_netlify"
    /\ UNCHANGED <<handler, request, apiKey, data, payload, calls, deadline, retryVars, relayVars>>
    /\ \E k \in BodyKinds :
        /\ body' = k
        /\ reply' = NetlifyAfterLoop(response, k, payload)
        /\ pc' = "done"

-----------------------------------------------------------------------------
(* The Groq handler of unnamed/part_003 *)

\* The loop's catch waits only `if (retries > 0)`.
Part3CatchWaits(err, r) == r > 0

\* The catch of the loop (lines 158-166): record the error, count down, wait
\* if a retry is left, else leave the loop and answer 500.
Part3Caught(err) ==
    /\ lastError' = err
    /\ retries' = retries - 1
    /\ IF Part3CatchWaits(err, retries') THEN
            /\ waits' = Append(waits, Backoff(retries'))
            /\ pc' = "sleep"
            /\ UNCHANGED reply
       ELSE IF LoopContinues(retries') THEN
            /\ pc' = "sleep"
            /\ UNCHANGED <<waits, reply>>
       ELSE
            /\ reply' = Part3Exhausted(err)
            /\ pc' = "done"
            /\ UNCHANGED waits

Part3Receive ==
    /\ pc = "start"
    /\ handler = "groq_part3"
    /\ UNCHANGED <<handler, request, apiKey, data, body, response, lastError, waits, relayVars>>
    /\ IF request.method = "OPTIONS" THEN
            /\ reply' = PreflightReply(200, Part3CorsHeaders)
            /\ pc' = "done"
            /\ UNCHANGED <<payload, calls, deadline, script, retries>>
       ELSE IF request.method # "POST" THEN
            /\ reply' = MethodNotAllowed(Part3CorsHeaders)
            /\ pc' = "done"
            /\ UNCHANGED <<payload, calls, deadline, script, retries>>
       ELSE IF KeyMissing(apiKey) THEN
            /\ reply' = JsonReply(500, "API key not configured",
                                  "Please set GROQ_API_KEY in your Netlify environment variables")
            /\ pc' = "done"
            /\ UNCHANGED <<payload, calls, deadline, script, retries>>
       ELSE IF ~request.parses THEN
            /\ reply' = JsonReply(400, "Invalid JSON", "Request body must be valid JSON")
            /\ pc' = "done"
            /\ UNCHANGED <<payload, calls, deadline, script, retries>>
       ELSE
            /\ payload' = Part3Payload(request.body)
            /\ retries' = MaxRetries
            /\ calls' = 1
            /\ deadline' = "armed"
            /\ script' \in Scripts
            /\ pc' = "fetch"
            /\ UNCHANGED reply

\* The in-flight fetch settles (lines 96-138): a response clears the 180 s
\* timer; 401 and 404 are answered without reading the body, every other
\* response has its body read next.
Part3FetchSettles ==
    /\ pc = "fetch"
    /\ handler = "groq_part3"
    /\ calls \in DOMAIN script
    /\ UNCHANGED <<handler, request, apiKey, data, payload, calls, script, body, relayVars>>
    /\ LET o == script[calls] IN
       IF o.kind = "status" THEN
            /\ response' = o
            /\ deadline' = "cleared"
            /\ IF Ok(o.status) THEN
                    /\ pc' = "body"
                    /\ UNCHANGED reply
               ELSE IF o.status = 401 THEN
                    /\ reply' = Part3Unauthorized
                    /\ pc' = "done"
               ELSE IF o.status = 404 THEN
                    /\ reply' = Part3NotFound(payload)
                    /\ pc' = "done"
               ELSE
                    /\ pc' = "body"
                    /\ UNCHANGED reply
            /\ UNCHANGED <<retries, lastError, waits>>
       ELSE
            /\ deadline' = IF o.kind = "abort" THEN "fired" ELSE deadline
            /\ UNCHANGED response
            /\ Part3Caught(UpstreamFailure(o))

\* `await response.json()` (line 109) or `await response.text()` (line 141)
\* settles; no timer is running while the body is awaited.
Part3BodySettles ==
    /\ pc = "body"
    /\ handler = "groq_part3"
    /\ UNCHANGED <<handler, request, apiKey, data, payload, calls, deadline, script,
                   response, relayVars>>
    /\ \E k \in BodyKinds :
        /\ body' = k
        /\ IF Ok(response.status) /\ IsJson(k) THEN
                /\ reply' = UpstreamReply
                /\ pc' = "done"
                /\ UNCHANGED <<retries, lastError, waits>>
           ELSE IF Ok(response.status) THEN
                Part3Caught(JsonParseErrorOf(k))
           ELSE
                /\ lastError' = [name |-> "Error",
                                 message |-> UpstreamErrorText(response.status, k)]
                /\ retries' = retries - 1
                /\ waits' = Append(waits, Backoff(retries'))
                /\ pc' = "sleep"
                /\ UNCHANGED reply

Part3SleepElapses ==
    /\ pc = "sleep"
    /\ handler = "groq_part3"
    /\ UNCHANGED <<handler, request, apiKey, data, payload, script, body, retries,
                   response, lastError, waits, relayVars>>
    /\ IF LoopContinues(retries) THEN
            /\ calls' = calls + 1
            /\ deadline' = "armed"
            /\ pc' = "fetch"
            /\ UNCHANGED reply
       ELSE
            /\ reply' = Part3Exhausted(lastError)
            /\ pc' = "done"
            /\ UNCHANGED <<calls, deadline>>

-----------------------------------------------------------------------------
(* Payloads and replies of the Fireworks and OpenAI handlers *)

FireworksTokenCeiling == 8192
OpenAITokenCeiling == 4096
EdgeDefaultMaxTokens == 4096
OpenAIDefaultTemperature == 7
OpenAIDefaultTopP == 10

\* `Math.min(Math.max(1, requestBody.max_tokens || 4096), ceiling)`
ValidatedMaxTokens(b, ceiling) ==
    Min(Max(1, IF TruthyNum(b, "max_tokens") THEN b.max_tokens
               ELSE EdgeDefaultMaxTokens),
        ceiling)

\* `cleanedParams` of both Fireworks handlers: six named fields, the absent
\* ones deleted, `stream` set by the handler.
FireworksPayload(b, streaming) ==
    [f \in {g \in {"model", "messages", "max_tokens", "temperature", "top_p", "stream"} :
                g \in {"max_tokens", "stream"} \/ Has(b, g)} |->
        CASE f = "max_tokens" -> ValidatedMaxTokens(b, FireworksTokenCeiling)
          [] f = "stream" -> streaming
          [] OTHER -> b[f]]

ToolsSupplied_AnyArray(b) == Has(b, "tools")

\* `requestBody.tools && Array.isArray(requestBody.tools) &&
\* requestBody.tools.length > 0`
ToolsSupplied(b) == Has(b, "tools") /\ Len(b.tools) > 0

\* `if (requestBody.tool_choice)`: present and truthy.
ToolChoiceSupplied(b) == Has(b, "tool_choice") /\ b.tool_choice # ""

\* `openaiPayload`: JSON.stringify leaves out `messages` when it is undefined.
OpenAIPayload(b) ==
    [f \in {g \in {"model", "messages", "max_tokens", "temperature", "top_p", "stream",
                   "presence_penalty", "frequency_penalty", "tools", "tool_choice"} :
                \/ g \in {"model", "max_tokens", "temperature", "top_p", "stream",
                          "presence_penalty", "frequency_penalty"}
                \/ g = "messages" /\ Has(b, g)
                \/ g = "tools" /\ ToolsSupplied(b)
                \/ g = "tool_choice" /\ ToolChoiceSupplied(b)} |->
        CASE f = "model" -> "gpt-4.1"
          [] f = "max_tokens" -> ValidatedMaxTokens(b, OpenAITokenCeiling)
          [] f = "temperature" ->
                IF TruthyNum(b, f) THEN b[f] ELSE OpenAIDefaultTemperature
          [] f = "top_p" -> IF TruthyNum(b, f) THEN b[f] ELSE OpenAIDefaultTopP
          [] f = "stream" -> TRUE
          [] f \in {"presence_penalty", "frequency_penalty"} ->
                IF TruthyNum(b, f) THEN b[f] ELSE 0
          [] OTHER -> b[f]]

\* The 200 reply whose body is the readable side of the TransformStream.
SseReply ==
    [status |-> 200, ctype |-> "text/event-stream", error |-> "", message |-> "",
     data |-> "stream"]

EdgeKeyMissing(name, platform) ==
    JsonReply(500, "API key not configured",
              "Please set " \o name \o " in your " \o platform \o " environment variables")

\* The catch around the parse of the request body: 400 with the parser's
\* message.
EdgeInvalidJson(err) == JsonReply(400, "Invalid JSON in request body", err.message)

\* The outer catch of the OpenAI handler and of the Fireworks streaming
\* handler: 500 with the error's message.
EdgeCatch(err) == JsonReply(500, MessageOr(err, "Unknown error"), "")

\* Outbound stream events.
DoneMarker == "data: [DONE]\n\n"
ErrorEvent(msg) == "data: {\"error\":true,\"message\":\"" \o msg \o "\"}\n\n"
CLOSE == "<close>"

\* Upstream body chunks: two deltas, and the terminator an OpenAI-compatible
\* upstream sends itself.
Chunks == {"data: {\"delta\":\"Hello\"}\n\n", "data: {\"delta\":\" world\"}\n\n",
           "data: [DONE]\n\n"}
ReadErrors == {"terminated", "socket hang up"}
MaxChunks == 3

\* writer.write(x) / writer.close() on the outbound writer: queued while the
\* stream is writable, rejected (and dropped) once it is errored, closed or
\* closing.
Writable == wstate = "open" /\ (wq = <<>> \/ wq[Len(wq)] # CLOSE)
Enqueue(ops) == IF Writable THEN wq \o ops ELSE wq

-----------------------------------------------------------------------------
(* The OpenAI streaming handler of api/proxy.js and its relay `pump` *)

\* `errorText || "API Error: <status>"`: the raw body, whatever it is.
OpenAIErrorMessage(st, kind) ==
    IF BodyText(kind) = "" THEN "API Error: " \o ToString(st) ELSE BodyText(kind)

\* Handler entry up to `await request.json()` (line 257).
OpenAIReceive ==
    /\ pc = "start"
    /\ handler = "openai_stream"
    /\ UNCHANGED <<handler, request, apiKey, data, deadline, body, retryVars, relayVars>>
    /\ IF request.method = "OPTIONS" THEN
            /\ reply' = PreflightReply(204, EdgePreflightHeaders)
            /\ pc' = "done"
            /\ UNCHANGED <<payload, calls>>
       ELSE IF request.method # "POST" THEN
            /\ reply' = MethodNotAllowed(JsonHeadersWithAllow)
            /\ pc' = "done"
            /\ UNCHANGED <<payload, calls>>
       ELSE IF KeyMissing(apiKey) THEN
            /\ reply' = EdgeKeyMissing("OPENAI_API_KEY", "Vercel")
            /\ pc' = "done"
            /\ UNCHANGED <<payload, calls>>
       ELSE
            /\ pc' = "parse"
            /\ UNCHANGED <<reply, payload, calls>>

\* `await request.json()` settles (lines 256-324): 400 for a body that is
\* not JSON, else the payload is built and sent, up to `await fetch(...)`;
\* no timer is set on the call.
OpenAIParseSettles ==
    /\ pc = "parse"
    /\ handler = "openai_stream"
    /\ UNCHANGED <<handler, request, apiKey, data, deadline, body, retryVars, relayVars>>
    /\ IF ~request.parses THEN
            /\ reply' = EdgeInvalidJson(BodyParseError(request.body))
            /\ pc' = "done"
            /\ UNCHANGED <<payload, calls>>
       ELSE
            /\ payload' = OpenAIPayload(request.body)
            /\ calls' = 1
            /\ pc' = "fetch"
            /\ UNCHANGED reply

\* `await fetch` settles (lines 326-397): the catch's reply for a transport
\* failure; for a status that is not ok the body is read next; else the
\* stream is set up, pump() runs to its first `await reader.read()` and the
\* handler returns the readable side.
OpenAIFetchSettles ==
    /\ pc = "fetch"
    /\ handler = "openai_stream"
    /\ UNCHANGED <<handler, request, apiKey, data, payload, calls, deadline, script,
                   retries, lastError, waits, up, issued, wq, out>>
    /\ \E o \in {x \in Outcomes : x.kind # "abort"} :
        IF o.kind = "throw" THEN
            /\ reply' = EdgeCatch(TransportError)
            /\ pc' = "done"
            /\ UNCHANGED <<response, body, upState, wstate>>
        ELSE IF ~Ok(o.status) THEN
            /\ response' = o
            /\ pc' = "body"
            /\ UNCHANGED <<reply, body, upState, wstate>>
        ELSE
            /\ response' = o
            /\ body' = "stream"
            /\ upState' = "open"
            /\ wstate' = "open"
            /\ reply' = SseReply
            /\ pc' = "read"

\* `await apiResponse.text()` of a status that is not ok settles (lines
\* 329-352): the text, or `API Error: <status>` for none, is the message of
\* the error reply.
OpenAIBodySettles ==
    /\ pc = "body"
    /\ handler = "openai_stream"
    /\ UNCHANGED <<handler, request, apiKey, data, payload, calls, deadline, response,
                   retryVars, relayVars>>
    /\ \E k \in BodyKinds :
        /\ body' = k
        /\ reply' = JsonReply(response.status, "true", OpenAIErrorMessage(response.status, k))
        /\ pc' = "done"

\* Where pump ends when a write or close awaited in its catch is rejected:
\* the rejection escapes and pump's promise ends rejected.
PumpWriteRejected == "rejected"

\* An Error a write or close on a stream that is no longer writable rejects
\* with.
WriteRejection == [name |-> "TypeError", message |-> "The stream is not writable"]

\* The rejection of a stream cancelled without a reason: `undefined`, which
\* is no Error and has no `message` to read.
UndefinedRejection ==
    [name |-> "undefined (not an Error)", message |-> "undefined (not an Error)"]

\* What a write on the errored stream rejects with is the reason the stream
\* was cancelled with, which the client (or the runtime) chooses.
WriteRejections == {WriteRejection, UndefinedRejection}

\* `await reader.read()` of pump settles (lines 365-383).
PumpReadSettles ==
    /\ pc = "read"
    /\ handler = "openai_stream"
    /\ UNCHANGED <<handler, request, apiKey, data, payload, calls, deadline, body, reply,
                   script, retries, response, waits, out, wstate>>
    /\ \/ \E c \in Chunks :
            /\ Len(up) < MaxChunks
            /\ up' = Append(up, c)
            /\ issued' = Append(issued, c)
            /\ wq' = Enqueue(<<c>>)
            /\ pc' = "write"
            /\ UNCHANGED <<upState, lastError>>
       \/ /\ upState' = "ended"
          /\ issued' = Append(issued, DoneMarker)
          /\ wq' = Enqueue(<<DoneMarker>>)
          /\ pc' = "writeDone"
          /\ UNCHANGED <<up, lastError>>
       \/ \E e \in ReadErrors :
            /\ upState' = "failed"
            /\ lastError' = [name |-> "TypeError", message |-> e]
            /\ issued' = Append(issued, ErrorEvent(e))
            /\ wq' = Enqueue(<<ErrorEvent(e)>>)
            /\ pc' = "errWrite"
            /\ UNCHANGED up

PumpAwaitsWriter == pc \in {"write", "writeDone", "close", "errWrite", "errDone", "errClose"}

PumpNext_NoClose(at) ==
    CASE at = "write"     -> [pc |-> "read",     ops |-> <<>>]
      [] at = "writeDone" -> [pc |-> "done",     ops |-> <<>>]
      [] at = "close"     -> [pc |-> "done",     ops |-> <<>>]
      [] at = "errWrite"  -> [pc |-> "errDone",  ops |-> <<DoneMarker>>]
      [] at = "errDone"   -> [pc |-> "errClose", ops |-> <<CLOSE>>]
      [] at = "errClose"  -> [pc |-> "done",     ops |-> <<>>]

\* The step of pump after each awaited writer operation: where it goes and
\* what it asks of the writer next.
PumpNext(at) ==
    CASE at = "write"     -> [pc |-> "read",     ops |-> <<>>]
      [] at = "writeDone" -> [pc |-> "close",    ops |-> <<CLOSE>>]
      [] at = "close"     -> [pc |-> "done",     ops |-> <<>>]
      [] at = "errWrite"  -> [pc |-> "errDone",  ops |-> <<DoneMarker>>]
      [] at = "errDone"   -> [pc |-> "errClose", ops |-> <<CLOSE>>]
      [] at = "errClose"  -> [pc |-> "done",     ops |-> <<>>]

\* The outbound stream takes the operation pump is awaiting; pump resumes.
PumpWriteSettles ==
    /\ handler = "openai_stream"
    /\ PumpAwaitsWriter
    /\ wstate = "open"
    /\ wq # <<>>
    /\ UNCHANGED <<handler, request, apiKey, data, payload, calls, deadline, body, reply,
                   retryVars, up, upState>>
    /\ IF Head(wq) = CLOSE
       THEN wstate' = "closed" /\ out' = out
       ELSE wstate' = wstate /\ out' = Append(out, Head(wq))
    /\ wq' = Tail(wq) \o PumpNext(pc).ops
    /\ issued' = issued \o PumpNext(pc).ops
    /\ pc' = PumpNext(pc).pc

\* The write or close pump is awaiting is rejected, the outbound stream
\* being no longer writable.  In the try block the rejection lands in the
\* catch (lines 377-380): for an Error it calls writer.write with the error
\* event and awaits it; for `undefined` the read of `error.message` throws
\* in the catch, nothing is written and the TypeError escapes pump.  In the
\* catch a rejection escapes pump whatever it is.  pump sees the value of
\* the rejection here and nowhere else.
PumpWriteRejects ==
    /\ handler = "openai_stream"
    /\ PumpAwaitsWriter
    /\ wstate # "open"
    /\ UNCHANGED <<handler, request, apiKey, data, payload, calls, deadline, body, reply,
                   script, retries, response, waits, up, upState, wq, out, wstate>>
    /\ IF pc \in {"write", "writeDone", "close"} THEN
            \E error \in WriteRejections :
                /\ lastError' = error
                /\ IF error = UndefinedRejection THEN
                        /\ pc' = PumpWriteRejected
                        /\ UNCHANGED issued
                   ELSE
                        /\ issued' = Append(issued, ErrorEvent(error.message))
                        /\ pc' = "errWrite"
       ELSE
            /\ pc' = PumpWriteRejected
            /\ UNCHANGED <<lastError, issued>>

-----------------------------------------------------------------------------
(* The Fireworks streaming handler of api/streaming.js and its relay *)

StatusText(st) ==
    CASE st = 400 -> "Bad Request"
      [] st = 401 -> "Unauthorized"
      [] st = 404 -> "Not Found"
      [] st = 429 -> "Too Many Requests"
      [] st = 500 -> "Internal Server Error"
      [] st = 502 -> "Bad Gateway"
      [] st = 503 -> "Service Unavailable"
      [] st = 504 -> "Gateway Timeout"
      [] OTHER -> "OK"

\* Handler entry up to `await request.json()` (line 59).
FwStreamReceive ==
    /\ pc = "start"
    /\ handler = "fw_stream"
    /\ UNCHANGED <<handler, request, apiKey, data, deadline, body, retryVars, up, upState,
                   issued, wq, out>>
    /\ IF request.method = "OPTIONS" THEN
            /\ reply' = PreflightReply(204, EdgePreflightHeaders)
            /\ pc' = "done"
            /\ UNCHANGED <<payload, calls, wstate>>
       ELSE IF request.method # "POST" THEN
            /\ reply' = MethodNotAllowed(JsonHeadersWithAllow)
            /\ pc' = "done"
            /\ UNCHANGED <<payload, calls, wstate>>
       ELSE IF KeyMissing(apiKey) THEN
            /\ reply' = EdgeKeyMissing("FIREWORKS_API_KEY", "Vercel")
            /\ pc' = "done"
            /\ UNCHANGED <<payload, calls, wstate>>
       ELSE
            /\ pc' = "parse"
            /\ UNCHANGED <<reply, payload, calls, wstate>>

\* `await request.json()` settles, to the handler's return: 400 for a body
\* that is not JSON; else the TransformStream and the 200 response are made
\* and the fetch is started, with no timer on it, before the handler returns
\* the response.
FwStreamParseSettles ==
    /\ pc = "parse"
    /\ handler = "fw_stream"
    /\ UNCHANGED <<handler, request, apiKey, data, deadline, body, retryVars, up, upState,
                   issued, wq, out>>
    /\ IF ~request.parses THEN
            /\ reply' = EdgeInvalidJson(BodyParseError(request.body))
            /\ pc' = "done"
            /\ UNCHANGED <<payload, calls, wstate>>
       ELSE
            /\ payload' = FireworksPayload(request.body, TRUE)
            /\ wstate' = "open"
            /\ reply' = SseReply
            /\ calls' = 1
            /\ pc' = "fetch"

\* What the relay's read catch asks of the writer (lines 163-167).
FwReadCatchOps(msg) == <<ErrorEvent(msg), CLOSE>>

\* What the fetch chain's catch asks of the writer (lines 173-178).
FwFetchCatchOps(msg) == <<ErrorEvent(msg), DoneMarker, CLOSE>>

\* The fetch promise settles (lines 138-178): a status that is not ok is
\* thrown to the chain's catch, like a transport failure; an ok response
\* starts processStreamChunk, which issues the first read.
FwStreamFetchSettles ==
    /\ pc = "fetch"
    /\ handler = "fw_stream"
    /\ UNCHANGED <<handler, request, apiKey, data, payload, calls, deadline, reply, script,
                   retries, waits, up, out, wstate>>
    /\ \E o \in {x \in Outcomes : x.kind # "abort"} :
        IF o.kind = "throw" THEN
            /\ lastError' = TransportError
            /\ issued' = issued \o FwFetchCatchOps(TransportError.message)
            /\ wq' = Enqueue(FwFetchCatchOps(TransportError.message))
            /\ pc' = "done"
            /\ UNCHANGED <<response, body, upState>>
        ELSE IF ~Ok(o.status) THEN
            LET msg == "API Error: " \o ToString(o.status) \o " " \o StatusText(o.status) IN
            /\ response' = o
            /\ lastError' = [name |-> "Error", message |-> msg]
            /\ issued' = issued \o FwFetchCatchOps(msg)
            /\ wq' = Enqueue(FwFetchCatchOps(msg))
            /\ pc' = "done"
            /\ UNCHANGED <<body, upState>>
        ELSE
            /\ response' = o
            /\ body' = "stream"
            /\ upState' = "open"
            /\ pc' = "read"
            /\ UNCHANGED <<lastError, issued, wq>>

\* reader.read() of processStreamChunk settles (lines 150-168).  Writes are
\* not awaited: the chunk is handed to the writer and the next read is
\* issued in the same turn.
FwReadSettles ==
    /\ pc = "read"
    /\ handler = "fw_stream"
    /\ UNCHANGED <<handler, request, apiKey, data, payload, calls, deadline, body, reply,
                   script, retries, response, waits, out, wstate>>
    /\ \/ \E c \in Chunks :
            /\ Len(up) < MaxChunks
            /\ up' = Append(up, c)
            /\ issued' = Append(issued, c)
            /\ wq' = Enqueue(<<c>>)
            /\ pc' = "read"
            /\ UNCHANGED <<upState, lastError>>
       \/ /\ upState' = "ended"
          /\ issued' = issued \o <<DoneMarker, CLOSE>>
          /\ wq' = Enqueue(<<DoneMarker, CLOSE>>)
          /\ pc' = "done"
          /\ UNCHANGED <<up, lastError>>
       \/ \E e \in ReadErrors :
            /\ upState' = "failed"
            /\ lastError' = [name |-> "TypeError", message |-> e]
            /\ issued' = issued \o FwReadCatchOps(e)
            /\ wq' = Enqueue(FwReadCatchOps(e))
            /\ pc' = "done"
            /\ UNCHANGED up

\* The outbound stream takes the oldest queued operation of the writer.
FwWriteSettles ==
    /\ handler = "fw_stream"
    /\ wstate = "open"
    /\ wq # <<>>
    /\ UNCHANGED <<handler, request, apiKey, data, pc, payload, calls, deadline, body,
                   reply, retryVars, up, upState, issued>>
    /\ IF Head(wq) = CLOSE
       THEN wstate' = "closed" /\ out' = out
       ELSE wstate' = wstate /\ out' = Append(out, Head(wq))
    /\ wq' = Tail(wq)

\* The client goes away while the event stream is open: the readable side is
\* cancelled, the writable side becomes errored and every queued operation is
\* rejected.
ClientDisconnect ==
    /\ handler \in StreamHandlers
    /\ wstate = "open"
    /\ wstate' = "errored"
    /\ wq' = <<>>
    /\ UNCHANGED <<handler, request, apiKey, data, pc, payload, calls, deadline, body,
                   reply, retryVars, up, upState, issued, out>>

-----------------------------------------------------------------------------
(* The buffered Fireworks handler of api/proxy.js *)

FireworksErrorMessage(st, kind) ==
    CASE st = 401 -> "Authentication failed. Please check your Fireworks API key."
      [] st = 429 -> "Rate limit exceeded. Please try again in a few moments."
      [] OTHER -> UpstreamErrorText(st, kind)

FwTimeoutError == [name |-> "Error", message |-> "Request timeout"]

\* The catch of the handler: 504 for the timeout of the race, else 500.
FwBufferedCatch(err) ==
    IF err.message = "Request timeout"
    THEN JsonReply(504, "The request took too long to process. Try reducing max_tokens or simplifying your prompt.", "")
    ELSE JsonReply(500, MessageOr(err, "Unknown error"), "")

\* Handler entry up to `await request.json()` (line 54).
FwBufferedReceive ==
    /\ pc = "start"
    /\ handler = "fw_buffered"
    /\ UNCHANGED <<handler, request, apiKey, data, body, retryVars, relayVars>>
    /\ IF request.method = "OPTIONS" THEN
            /\ reply' = PreflightReply(204, EdgePreflightHeaders)
            /\ pc' = "done"
            /\ UNCHANGED <<payload, calls, deadline>>
       ELSE IF request.method # "POST" THEN
            /\ reply' = MethodNotAllowed(JsonHeaders)
            /\ pc' = "done"
            /\ UNCHANGED <<payload, calls, deadline>>
       ELSE IF KeyMissing(apiKey) THEN
            /\ reply' = EdgeKeyMissing("FIREWORKS_API_KEY", "Netlify")
            /\ pc' = "done"
            /\ UNCHANGED <<payload, calls, deadline>>
       ELSE
            /\ pc' = "parse"
            /\ UNCHANGED <<reply, payload, calls, deadline>>

\* `await request.json()` settles: 400 for a body that is not JSON; else up
\* to `await Promise.race([fetchPromise, timeoutPromise])`, the 28 s timer
\* of timeoutPromise being started with the fetch.
FwBufferedParseSettles ==
    /\ pc = "parse"
    /\ handler = "fw_buffered"
    /\ UNCHANGED <<handler, request, apiKey, data, body, retryVars, relayVars>>
    /\ IF ~request.parses THEN
            /\ reply' = EdgeInvalidJson(BodyParseError(request.body))
            /\ pc' = "done"
            /\ UNCHANGED <<payload, calls, deadline>>
       ELSE
            /\ payload' = FireworksPayload(request.body, FALSE)
            /\ calls' = 1
            /\ deadline' = "armed"
            /\ pc' = "fetch"
            /\ UNCHANGED reply

\* The fetch wins the race (line 119).  The timer is never cleared, but the
\* race is over: its firing later rejects a promise nothing awaits any more.
FwBufferedFetchSettles ==
    /\ pc = "fetch"
    /\ handler = "fw_buffered"
    /\ deadline' = "unheeded"
    /\ UNCHANGED <<handler, request, apiKey, data, payload, calls, body, script, retries,
                   lastError, waits, relayVars>>
    /\ \E o \in {x \in Outcomes : x.kind # "abort"} :
        IF o.kind = "throw" THEN
            /\ reply' = FwBufferedCatch(TransportError)
            /\ pc' = "done"
            /\ UNCHANGED response
        ELSE
            /\ response' = o
            /\ pc' = "body"
            /\ UNCHANGED reply

\* `await response.text()` (line 123) or `await response.json()` (line 156)
\* settles, outside the race.
FwBufferedBodySettles ==
    /\ pc = "body"
    /\ handler = "fw_buffered"
    /\ UNCHANGED <<handler, request, apiKey, data, payload, calls, deadline, retryVars, relayVars>>
    /\ \E k \in BodyKinds :
        /\ body' = k
        /\ pc' = "done"
        /\ reply' =
            IF ~Ok(response.status)
            THEN JsonReply(response.status,
                           "Fireworks API error: " \o ToString(response.status),
                           FireworksErrorMessage(response.status, k))
            ELSE IF IsJson(k) THEN UpstreamReply
            ELSE FwBufferedCatch(JsonParseErrorOf(k))

\* The 28 s timer wins the race (lines 112-114, 176-179).
FwBufferedTimeout ==
    /\ pc = "fetch"
    /\ handler = "fw_buffered"
    /\ deadline' = "fired"
    /\ reply' = FwBufferedCatch(FwTimeoutError)
    /\ pc' = "done"
    /\ UNCHANGED <<handler, request, apiKey, data, payload, calls, body, retryVars, relayVars>>

\* Promise.race has settled with the first of its promises to settle; what
\* the other promise does later is ignored.
RaceOver(d) == d \in {"fired", "unheeded"}

\* The upstream answers after the timer has won the race and the handler has
\* returned its 504: fetchPromise resolves, nothing awaits it, and the
\* response's body is never read.
FwBufferedLateResponse ==
    /\ pc = "done"
    /\ handler = "fw_buffered"
    /\ deadline = "fired"
    /\ body = "none"
    /\ body' = "unread"
    /\ UNCHANGED <<handler, request, apiKey, data, pc, payload, calls, deadline,
                   retryVars, relayVars>>
    /\ \E o \in {x \in Outcomes : x.kind = "status"} :
        reply' = IF RaceOver(deadline) THEN reply
                 ELSE IF Ok(o.status) THEN UpstreamReply
                 ELSE JsonReply(o.status, "Fireworks API error: " \o ToString(o.status),
                                FireworksErrorMessage(o.status, "empty"))

-----------------------------------------------------------------------------
(* The two Perplexity handlers, unnamed/part_000 and unnamed/part_001.  They *)
(* run the same steps; where they differ is a parameter of the step.         *)

PplxMaxTokens == 2048
PplxTemperature == 7

SystemMessage ==
    [role |-> "system",
     content |-> "You are a helpful assistant that provides accurate information with online search capabilities."]

\* `!requestBody.query`: absent or the empty string.
QueryMissing(b) == ~Has(b, "query") \/ b.query = ""

\* The outbound body is built from the query alone.
PplxPayload(b) ==
    [model |-> "sonar-medium-online",
     messages |-> <<SystemMessage, [role |-> "user", content |-> b.query]>>,
     temperature |-> PplxTemperature,
     max_tokens |-> PplxMaxTokens,
     stream |-> FALSE]

\* part_000 names the missing key in `error` alone.
Pplx0KeyMissing == JsonReply(500, "Perplexity API key not configured on server", "")

PplxQueryMissing == JsonReply(400, "Missing required parameter: query", "")

\* `arguments` strings of a tool call, as an upstream may send them.
ArgsFull == "{\"title\":\"TLA+ home\",\"url\":\"https://lamport.org/tla\",\"snippet\":\"A language\"}"
ArgsUrlOnly == "{\"url\":\"https://example.org\"}"
ArgsNullLiteral == "null"
ArgsBroken == "{\"title\": \"cut o"

JsNull == [null |-> TRUE]

\* JSON.parse of an `arguments` string: the value, or a SyntaxError.
JsonParse(str) ==
    CASE str = ArgsFull ->
            [ok |-> TRUE,
             value |-> [title |-> "TLA+ home", url |-> "https://lamport.org/tla",
                        snippet |-> "A language"]]
      [] str = ArgsUrlOnly -> [ok |-> TRUE, value |-> [url |-> "https://example.org"]]
      [] str = ArgsNullLiteral -> [ok |-> TRUE, value |-> JsNull]
      [] OTHER -> [ok |-> FALSE, value |-> JsNull]

CitationPlaceholder == [title |-> "Citation", url |-> "#"]

\* `args.f || dflt`: the member when it is there and not empty.
OrDefault(args, f, dflt) == IF Has(args, f) /\ args[f] # "" THEN args[f] ELSE dflt

DecodeCitation_DefaultsOnFailure(citation) ==
    LET parsed == IF Has(citation.function, "arguments")
                  THEN JsonParse(citation.function.arguments)
                  ELSE [ok |-> FALSE, value |-> JsNull]
        args == IF parsed.ok THEN parsed.value ELSE JsNull
    IN  [title |-> OrDefault(args, "title", "Source"),
         url |-> OrDefault(args, "url", ""),
         snippet |-> OrDefault(args, "snippet", "")]

\* The callback of `citations.map` (part_000 151-162): the arguments are
\* parsed and read inside a try whose catch returns the placeholder; reading
\* a member of a parsed null throws there too.
DecodeCitation(citation) ==
    LET parsed == IF Has(citation.function, "arguments")
                  THEN JsonParse(citation.function.arguments)
                  ELSE [ok |-> FALSE, value |-> JsNull]
    IN  IF ~parsed.ok \/ parsed.value = JsNull
        THEN CitationPlaceholder
        ELSE [title |-> OrDefault(parsed.value, "title", "Source"),
              url |-> OrDefault(parsed.value, "url", ""),
              snippet |-> OrDefault(parsed.value, "snippet", "")]

\* The test of `tool_calls.filter`.
IsCitation(tool) == tool.function.name \in {"citation", "web_search"}

ArgsParse(tool) ==
    IF Has(tool.function, "arguments") THEN JsonParse(tool.function.arguments).ok
    ELSE FALSE

\* `responseData.sources` (part_000 138-167): empty without tool_calls; the
\* filter reads `tool.function.name` of every entry, so one entry without a
\* `function` member throws to the outer catch, which leaves the sources
\* empty; otherwise each citation entry is decoded in its place.
PplxSources(message) ==
    IF ~Has(message, "tool_calls") THEN <<>>
    ELSE IF \E i \in DOMAIN message.tool_calls : ~Has(message.tool_calls[i], "function")
    THEN <<>>
    ELSE LET citations == SelectSeq(message.tool_calls, IsCitation)
         IN  [i \in 1..Len(citations) |-> DecodeCitation(citations[i])]

PplxAnswer_LastChoice(d) == d.choices[Len(d.choices)].message.content

\* `data.choices[0].message.content`
PplxAnswer(d) == d.choices[1].message.content

\* The 200 reply: { answer, sources } taken from the upstream's document.
PplxAnswerReply(d) ==
    [status |-> 200, ctype |-> "application/json", error |-> "", message |-> "",
     data |-> "answer",
     answer |-> PplxAnswer(d),
     sources |-> PplxSources(d.choices[1].message)]

\* Reading `data.choices[0].message` of a document without choices.
NoChoiceError ==
    [name |-> "TypeError",
     message |-> "Cannot read properties of undefined (reading 'message')"]

PplxDecodeThrows_OnBadToolCall(d) ==
    \/ d.choices = <<>>
    \/ /\ Has(d.choices[1].message, "tool_calls")
       /\ \E i \in DOMAIN d.choices[1].message.tool_calls :
            ~Has(d.choices[1].message.tool_calls[i], "function")

\* What of the response processing (part_000 133-178) throws to the catch
\* around the fetch: reading the first choice of a document that has none.
\* The work on tool_calls is inside a try of its own.
PplxDecodeThrows(d) == d.choices = <<>>

\* Tool-call entries an upstream document may hold, and the documents.
MaxToolCalls == 2

ToolCalls ==
    {[function |-> [name |-> "citation", arguments |-> a]] :
            a \in {ArgsFull, ArgsBroken, ArgsNullLiteral}}
    \cup {[function |-> [name |-> "web_search", arguments |-> ArgsUrlOnly]],
          [function |-> [name |-> "calculator", arguments |-> ArgsFull]],
          [function |-> [name |-> "citation"]],
          [id |-> "call_1"]}

ToolCallSeqs == UNION {[1..n -> ToolCalls] : n \in 0..MaxToolCalls}

OtherContent == "TLA+ is a language for specifying systems."

\* The successful documents the upstream may answer a query with: its
\* content echoes the user message of the payload or is something else.
PplxDocs(pay) ==
    LET contents == {pay.messages[2].content, OtherContent}
        plain == {[content |-> c] : c \in contents}
        withCalls == {[content |-> c, tool_calls |-> t] :
                            c \in contents, t \in ToolCallSeqs}
    IN  {[choices |-> <<>>]}
        \cup {[choices |-> <<[message |-> m]>>] : m \in plain \cup withCalls}
        \cup {[choices |-> <<[message |-> m], [message |-> [content |-> "second choice"]]>>] :
                    m \in plain}

\* `details` of the error reply (kept in `message`): the raw body text.
PplxErrorDetails(kind) == BodyText(kind)

PplxStatusReply(st, kind) ==
    JsonReply(st, "Perplexity API Error: " \o StatusText(st), PplxErrorDetails(kind))

\* The catch around the fetch: 504 for an AbortError, else 500.
PplxFetchCatch(err) ==
    IF err.name = "AbortError"
    THEN JsonReply(504, "Gateway Timeout",
                   "The request to the Perplexity API took too long to complete (>25 seconds).")
    ELSE JsonReply(500, "Request Failed", err.message)

\* From the parsed (or unparsable) request body up to `await fetch(...)`,
\* sent under a 25 s abort timer.
PplxAfterParse ==
    IF ~request.parses THEN
        /\ reply' = EdgeInvalidJson(BodyParseError(request.body))
        /\ pc' = "done"
        /\ UNCHANGED <<payload, calls, deadline>>
    ELSE IF QueryMissing(request.body) THEN
        /\ reply' = PplxQueryMissing
        /\ pc' = "done"
        /\ UNCHANGED <<payload, calls, deadline>>
    ELSE
        /\ payload' = PplxPayload(request.body)
        /\ calls' = 1
        /\ deadline' = "armed"
        /\ pc' = "fetch"
        /\ UNCHANGED reply

\* Handler entry: part_000 parses event.body in place and goes on to the
\* fetch; part_001 suspends at `await request.json()`.
PplxReceive(h, preflight, keyMissing, awaitsBody) ==
    /\ pc = "start"
    /\ handler = h
    /\ UNCHANGED <<handler, request, apiKey, data, body, retryVars, relayVars>>
    /\ IF request.method = "OPTIONS" THEN
            /\ reply' = preflight
            /\ pc' = "done"
            /\ UNCHANGED <<payload, calls, deadline>>
       ELSE IF request.method # "POST" THEN
            /\ reply' = MethodNotAllowed(JsonHeadersWithAllow)
            /\ pc' = "done"
            /\ UNCHANGED <<payload, calls, deadline>>
       ELSE IF KeyMissing(apiKey) THEN
            /\ reply' = keyMissing
            /\ pc' = "done"
            /\ UNCHANGED <<payload, calls, deadline>>
       ELSE IF awaitsBody THEN
            /\ pc' = "parse"
            /\ UNCHANGED <<reply, payload, calls, deadline>>
       ELSE PplxAfterParse

\* `await fetch` settles: a response clears the timer and its body is read
\* next; an abort or a transport failure is answered by the catch, which
\* clears the timer in part_001 only.
PplxFetchSettles(h, catchClears) ==
    /\ pc = "fetch"
    /\ handler = h
    /\ UNCHANGED <<handler, request, apiKey, data, payload, calls, body, script, retries,
                   lastError, waits, relayVars>>
    /\ \E o \in Outcomes :
        IF o.kind = "status" THEN
            /\ response' = o
            /\ deadline' = "cleared"
            /\ pc' = "body"
            /\ UNCHANGED reply
        ELSE
            /\ deadline' = IF o.kind = "abort" THEN "fired"
                           ELSE IF catchClears THEN "cleared" ELSE deadline
            /\ reply' = PplxFetchCatch(UpstreamFailure(o))
            /\ pc' = "done"
            /\ UNCHANGED response

\* `await response.text()` or `await response.json()` settles, and the rest
\* of the handler runs; no timer is running while the body is awaited.
PplxBodySettles(h) ==
    /\ pc = "body"
    /\ handler = h
    /\ pc' = "done"
    /\ UNCHANGED <<handler, request, apiKey, payload, calls, deadline, retryVars, relayVars>>
    /\ \E k \in BodyKinds :
        /\ body' = k
        /\ IF ~Ok(response.status) THEN
                /\ reply' = PplxStatusReply(response.status, k)
                /\ UNCHANGED data
           ELSE IF ~IsJson(k) THEN
                /\ reply' = PplxFetchCatch(JsonParseErrorOf(k))
                /\ UNCHANGED data
           ELSE
                \E d \in PplxDocs(payload) :
                    /\ data' = d
                    /\ reply' = IF PplxDecodeThrows(d)
                                THEN PplxFetchCatch(NoChoiceError)
                                ELSE PplxAnswerReply(d)

Pplx0Receive ==
    PplxReceive("pplx_part0", PreflightReply(200, Pplx0PreflightHeaders), Pplx0KeyMissing,
                FALSE)
Pplx0FetchSettles == PplxFetchSettles("pplx_part0", FALSE)
Pplx0BodySettles == PplxBodySettles("pplx_part0")

Pplx1Receive ==
    PplxReceive("pplx_part1", PreflightReply(204, EdgePreflightHeaders),
                EdgeKeyMissing("PERPLEXITY_API_KEY", "Vercel"), TRUE)

\* `await request.json()` of part_001 settles (line 59).
Pplx1ParseSettles ==
    /\ pc = "parse"
    /\ handler = "pplx_part1"
    /\ UNCHANGED <<handler, request, apiKey, data, body, retryVars, relayVars>>
    /\ PplxAfterParse
Pplx1FetchSettles == PplxFetchSettles("pplx_part1", TRUE)
Pplx1BodySettles == PplxBodySettles("pplx_part1")

-----------------------------------------------------------------------------
Init ==
    /\ handler \in Handlers
    /\ request \in Requests
    /\ apiKey \in ApiKeys
    /\ pc = "start"
    /\ payload = NoPayload
    /\ calls = 0
    /\ script = <<>>
    /\ deadline = "none"
    /\ body = "none"
    /\ data = NoData
    /\ retries = 0
    /\ response = NoResponse
    /\ lastError = NoError
    /\ waits = <<>>
    /\ reply = NoReply
    /\ up = <<>>
    /\ upState = "none"
    /\ issued = <<>>
    /\ wq = <<>>
    /\ out = <<>>
    /\ wstate = "none"

\* The steps of the handlers and of their upstreams.
HandlerNext ==
    \/ NetlifyReceive
    \/ NetlifyFetchSettles
    \/ NetlifySleepElapses
    \/ NetlifyBodySettles
    \/ Part3Receive
    \/ Part3FetchSettles
    \/ Part3SleepElapses
    \/ Part3BodySettles
    \/ FwBufferedReceive
    \/ FwBufferedParseSettles
    \/ FwBufferedFetchSettles
    \/ FwBufferedBodySettles
    \/ FwBufferedTimeout
    \/ FwBufferedLateResponse
    \/ OpenAIReceive
    \/ OpenAIParseSettles
    \/ OpenAIFetchSettles
    \/ OpenAIBodySettles
    \/ PumpReadSettles
    \/ PumpWriteSettles
    \/ PumpWriteRejects
    \/ FwStreamReceive
    \/ FwStreamParseSettles
    \/ FwStreamFetchSettles
    \/ FwReadSettles
    \/ FwWriteSettles
    \/ Pplx0Receive
    \/ Pplx0FetchSettles
    \/ Pplx0BodySettles
    \/ Pplx1Receive
    \/ Pplx1ParseSettles
    \/ Pplx1FetchSettles
    \/ Pplx1BodySettles

Next == HandlerNext \/ ClientDisconnect

Spec == Init /\ [][Next]_vars

\* The handler awaits the body of a buffered upstream response
\* (response.text() / response.json()).
AwaitsUpstreamBody == pc = "body"

\* Every outbound call eventually returns a status, throws or is aborted by
\* its timer, and every other await of a handler settles: the read of the
\* inbound request, a backoff timer, the relay's reads and the operations
\* queued on the outbound stream.  Nothing is assumed about the read of a
\* buffered upstream response body, which no timer bounds, nor about the
\* client going away.
LiveSpec == Spec /\ WF_vars(HandlerNext /\ ~AwaitsUpstreamBody)

-----------------------------------------------------------------------------
(* Properties of the retry loops *)

\* Outbound calls whose outcome the handler has seen.
Settled == IF pc \in {"fetch", "body"} THEN calls - 1 ELSE calls

St(s) == [kind |-> "status", status |-> s]

Retrying == handler \in GroqHandlers /\ calls > 0

\* A transport failure (the fetch throws, abort included) or a 502/504.
RetryableOutcome(o) == o.kind \in {"throw", "abort"} \/ o.status \in {502, 504}

\* C3: when the upstream answers 502, then 504, then 200 with a JSON body,
\* the handler makes exactly 3 outbound calls and answers the client with
\* that body under status 200, no error in it.
C3_RetryThenSuccess ==
    (/\ Retrying
     /\ script = <<St(502), St(504), St(200)>>
     /\ pc = "done"
     /\ IsJson(body))
    => (calls = 3 /\ reply = UpstreamReply)

C3_Witness ==
    /\ handler = "groq_part3"
    /\ script = <<St(502), St(504), St(200)>>
    /\ pc = "done"
    /\ calls = 3
    /\ waits = <<3000, 6000>>
    /\ reply.status = 200

\* C4: an attempt that ended in anything but a transport failure or a
\* 502/504 is the last one: the handler answers right after it, and no
\* further call goes out.
C4_OnlyTransportOr502_504Retried ==
    Retrying =>
        \A i \in 1..Settled :
            ~RetryableOutcome(script[i]) => (pc = "done" /\ calls = i)

AuthFailureReply(r) ==
    /\ r.status = 401
    /\ \/ r.error = "Authentication failed"
       \/ r.message = "Authentication failed. Please check your API key in Netlify environment variables."

\* C5: a 401 on the first call is answered at once: one outbound call, no
\* backoff wait, status 401 and an authentication-failure message.
C5_UnauthorizedNotRetried ==
    (Retrying /\ Settled >= 1 /\ script[1] = St(401))
    => (pc = "done" /\ calls = 1 /\ waits = <<>> /\ AuthFailureReply(reply))

C5_Witness ==
    /\ handler = "groq_netlify"
    /\ pc = "done"
    /\ calls = 1
    /\ script[1] = St(401)
    /\ reply.status = 401

\* C6 as claimed: once the abort timer of an attempt has fired, no further
\* outbound attempt is made.
C6_NoAttemptAfterAbort ==
    Retrying =>
        \A i \in 1..Settled : script[i].kind = "abort" => calls = i

\* C6 as amended: an abort is handled like any other failed fetch.  After an
\* abort of the 1st or 2nd attempt the handler does not answer the client:
\* it waits with a retry still left, and then calls again; only an abort of
\* the 3rd attempt ends the request.
C6_AbortRetriedWhileRetriesRemain ==
    Retrying =>
        \A i \in 1..Settled :
            script[i].kind = "abort" =>
                IF i < MaxRetries
                THEN calls = i => (pc = "sleep" /\ retries = MaxRetries - i)
                ELSE pc = "done" /\ calls = MaxRetries

C6_Witness ==
    /\ Retrying
    /\ script[1].kind = "abort"
    /\ calls = 2
    /\ pc = "fetch"

\* C7: when the third attempt has failed too, the client gets that attempt's
\* failure: its status if it was an error status, its error message if the
\* fetch threw.
C7_LastFailureSurfaced ==
    (Retrying /\ pc = "done" /\ calls = MaxRetries)
    => LET last == script[MaxRetries] IN
       /\ (last.kind = "status" /\ ~Ok(last.status)) => reply.status = last.status
       /\ last.kind = "throw" =>
            TransportError.message \in {reply.error, reply.message}

\* C8: at most 3 outbound calls are made for one request.
C8_AtMostThreeCalls == calls <= MaxRetries

C8_Witness == Retrying /\ calls = MaxRetries /\ pc = "done" /\ script[3].kind = "throw"

\* Retries left when attempt k is about to be made.
RemainingBefore(k) == MaxRetries - (k - 1)

\* C9 as claimed: the wait before attempt k is (retries remaining before
\* attempt k) * 3000 ms.
C9_BackoffIsRemainingTimes3000 ==
    Retrying =>
        \A k \in 2..MaxRetries :
            calls >= k => waits[k - 1] = RemainingBefore(k) * 3000

\* C9 as amended: the wait before attempt k is (3 - retries remaining before
\* attempt k) * 3000 ms, that is (k - 1) * 3000 ms.
C9_BackoffIsUsedTimes3000 ==
    Retrying =>
        \A k \in 2..MaxRetries :
            calls >= k => waits[k - 1] = (3 - RemainingBefore(k)) * 3000

C9_Witness == Retrying /\ calls = 3 /\ waits = <<3000, 6000>> /\ pc = "fetch"

-----------------------------------------------------------------------------
(* Properties of the stream relays *)

Relaying == handler \in StreamHandlers /\ upState # "none"

\* C1: when a read of the upstream body fails, the client receives the
\* chunks relayed so far, then one error event with the failure's message,
\* then one `data: [DONE]` marker, and then the stream is closed; and no
\* stream is ever closed unless `data: [DONE]` was the last thing written.
C1_ReadFailureEndsWithErrorThenDone ==
    handler \in StreamHandlers =>
        /\ (wstate = "closed" /\ upState = "failed")
                => out = up \o <<ErrorEvent(lastError.message), DoneMarker>>
        /\ wstate = "closed" => (out # <<>> /\ out[Len(out)] = DoneMarker)

\* C2: the relay hands the writer the upstream chunks as they arrive, none
\* dropped, duplicated or reordered; after end-of-stream a marker or the
\* close is always pending until the stream is closed; and a stream closed
\* after end-of-stream has delivered exactly the chunks, then one
\* `data: [DONE]` marker, and nothing else.
C2_ChunksThenDoneThenClose ==
    Relaying =>
        /\ (upState = "open" /\ wstate = "open") => out \o wq = up
        /\ (upState = "ended" /\ wstate = "open") => wq # <<>>
        /\ (upState = "ended" /\ wstate = "closed")
                => (out = up \o <<DoneMarker>> /\ wq = <<>>)

C2_Witness ==
    /\ handler = "fw_stream"
    /\ upState = "ended"
    /\ wstate = "closed"
    /\ Len(up) = 2
    /\ up[1] # up[2]
    /\ out = up \o <<DoneMarker>>

-----------------------------------------------------------------------------
(* Properties of request validation *)

MessagesMissing(b) == ~Has(b, "messages") \/ b.messages = <<>>

\* C10: a POST whose `messages` is absent or empty is answered 400 and no
\* outbound call is made for it (with the provider's key configured, so that
\* nothing but the body decides the answer).
C10_EmptyMessagesRejected ==
    (/\ request.method = "POST"
     /\ request.parses
     /\ apiKey # ""
     /\ MessagesMissing(request.body)
     /\ pc \notin {"start", "parse"})
    => (calls = 0 /\ pc = "done" /\ reply.status = 400)

-----------------------------------------------------------------------------
(* Properties of the outbound payload *)

ChatHandlers == GroqHandlers \cup StreamHandlers \cup {"fw_buffered"}

\* The token ceiling of the provider a handler forwards to.
ProviderMax(h) ==
    CASE h \in GroqHandlers -> GroqTokenCeiling
      [] h = "openai_stream" -> OpenAITokenCeiling
      [] OTHER -> FireworksTokenCeiling

\* C11: whenever the caller supplied an integer max_tokens v, the outbound
\* payload's max_tokens is min(max(1, v), provider_max): values below 1 go
\* out as 1, values above the provider's ceiling as the ceiling.
C11_MaxTokensClamped ==
    (handler \in ChatHandlers /\ calls > 0 /\ Has(request.body, "max_tokens"))
    => payload.max_tokens =
            Min(Max(1, request.body.max_tokens), ProviderMax(handler))

\* C20: when the client put a `stream` value in the request body, the
\* outbound payload's `stream` is still the route's: TRUE on the streaming
\* routes, FALSE on the buffered ones.
C20_StreamSetByRoute ==
    (handler \in ChatHandlers /\ calls > 0 /\ Has(request.body, "stream"))
    => (Has(payload, "stream") /\ payload.stream = (handler \in StreamHandlers))

-----------------------------------------------------------------------------
(* Properties of the relays under load and disconnect *)

\* C12: while the upstream body and the outbound stream are both open, at
\* most one chunk has been read from upstream and not yet taken by the
\* outbound stream.
C12_AtMostOneChunkPending ==
    (Relaying /\ upState = "open" /\ wstate = "open") => Len(up) - Len(out) <= 1

\* C13: once the client has disconnected, a read of the upstream body that
\* completes is the last one: the relay does not issue another read.
C13_NoReadAfterDisconnect ==
    [][(handler \in StreamHandlers /\ wstate = "errored" /\ up' # up)
            => pc' # "read"]_vars

-----------------------------------------------------------------------------
(* Properties of deadlines and error replies *)

\* The outcome of the latest outbound call, once the handler is done.
LastAnswer == IF handler \in GroqHandlers THEN script[calls] ELSE response

\* C14: a buffered request that ended because the timer on its outbound
\* call fired is answered with status 504.
C14_TimeoutAnswered504 ==
    (handler \in BufferedHandlers /\ pc = "done" /\ deadline = "fired")
    => reply.status = 504

\* C15: when the latest upstream answer was an error status s and the
\* handler is done, the client's response has status s and a JSON body.
C15_UpstreamStatusSurfaced ==
    (/\ calls > 0
     /\ pc = "done"
     /\ LastAnswer.kind = "status"
     /\ ~Ok(LastAnswer.status))
    => (reply.status = LastAnswer.status /\ reply.ctype = "application/json")

\* C16: a POST that arrives while the provider's key is not set is answered
\* with a 500 JSON error as soon as the handler has run, whatever its body
\* is, and no outbound call is built or made for it.
C16_KeyMissingIs500 ==
    (request.method = "POST" /\ apiKey = "" /\ pc # "start")
    => /\ pc = "done"
       /\ calls = 0
       /\ payload = NoPayload
       /\ reply.status = 500
       /\ reply.ctype = "application/json"
       /\ reply.error # ""

C16_Witness ==
    /\ handler = "fw_stream"
    /\ request.method = "POST"
    /\ ~request.parses
    /\ apiKey = ""
    /\ pc = "done"
    /\ reply = EdgeKeyMissing("FIREWORKS_API_KEY", "Vercel")

\* C17: on a buffered route the timer stays armed for as long as the handler
\* awaits the upstream, the response body included.
C17_DeadlineCoversBody ==
    (handler \in BufferedHandlers /\ pc \in {"fetch", "body"}) => deadline = "armed"

\* C18: every outbound call awaiting its response headers, on a buffered or
\* a streaming route, has an armed timer.
C18_EveryCallUnderDeadline ==
    (calls > 0 /\ pc = "fetch") => deadline = "armed"

\* C19: on every buffered route a call answered 502 or 504 is followed by
\* another attempt: no request is done after a single call that got one.
C19_EveryProviderRetries ==
    (handler \in BufferedHandlers /\ pc = "done" /\ calls = 1)
    => ~(response.kind = "status" /\ response.status \in {502, 504})

-----------------------------------------------------------------------------
(* Properties of the payload's optional fields *)

\* C21: a temperature or top_p the request carries, 0 included, is in the
\* outbound payload unchanged; a default stands in only for an absent field.
C21_ExplicitZeroKept ==
    (handler \in ChatHandlers /\ calls > 0)
    => \A f \in {"temperature", "top_p"} :
            Has(request.body, f)
                => (Has(payload, f) /\ payload[f] = request.body[f])

\* The fields of a ChatRequest that a provider's wire payload may carry.
ChatRequestFields ==
    {"model", "messages", "temperature", "top_p", "max_tokens", "tools",
     "tool_choice", "stream"}

\* C22: the outbound payload of a chat handler carries recognised
\* ChatRequest fields only: a key of the request that is not one of them is
\* not forwarded.
C22_PayloadIsWhitelisted ==
    (handler \in ChatHandlers /\ calls > 0)
    => \A f \in DOMAIN payload : f \in ChatRequestFields \/ ~Has(request.body, f)

\* C23: in the OpenAI streaming handler `tools` is in the outbound payload
\* exactly when the request has a non-empty array of tools, `tool_choice`
\* exactly when the request has a non-empty one, and both are the client's
\* values.
C23_ToolsPassThrough ==
    (handler = "openai_stream" /\ calls > 0)
    => LET b == request.body IN
       /\ Has(payload, "tools") <=> (Has(b, "tools") /\ b.tools # <<>>)
       /\ Has(payload, "tools") => payload.tools = b.tools
       /\ Has(payload, "tool_choice") <=> (Has(b, "tool_choice") /\ b.tool_choice # "")
       /\ Has(payload, "tool_choice") => payload.tool_choice = b.tool_choice

C23_Witness ==
    /\ handler = "openai_stream"
    /\ calls > 0
    /\ Has(request.body, "tools")
    /\ request.body.tools = <<>>
    /\ ~Has(payload, "tools")
    /\ payload.tool_choice = "required"

-----------------------------------------------------------------------------
(* Properties of the Perplexity decode step *)

\* A Perplexity handler is done with a successful document that has a first
\* choice.
PplxDecoded ==
    /\ handler \in PplxHandlers
    /\ pc = "done"
    /\ data # NoData
    /\ data.choices # <<>>

FirstMessage == data.choices[1].message

\* The document's tool calls all have a `function` member.
ToolCallsWellFormed ==
    /\ Has(FirstMessage, "tool_calls")
    /\ \A i \in DOMAIN FirstMessage.tool_calls : Has(FirstMessage.tool_calls[i], "function")

CitationEntries == SelectSeq(FirstMessage.tool_calls, IsCitation)

ArgumentsOf(tool) ==
    IF Has(tool.function, "arguments") THEN tool.function.arguments ELSE "<undefined>"

UpstreamToolCalls ==
    IF Has(FirstMessage, "tool_calls") THEN FirstMessage.tool_calls ELSE <<>>

\* A tool call whose function name is "citation" or "web_search".
NamedCitation(tool) ==
    Has(tool, "function") /\ tool.function.name \in {"citation", "web_search"}

NamedCitations == SelectSeq(UpstreamToolCalls, NamedCitation)

\* C24: whatever else the upstream's tool_calls hold, a citation /
\* web_search entry whose arguments are not valid JSON is the source
\* {title: "Citation", url: "#"} at its place among the citation entries,
\* and each sibling whose arguments are a valid JSON object is decoded into
\* {title, url, snippet} at its own place.
C24_BadCitationIsPlaceholder ==
    PplxDecoded =>
        \A i \in DOMAIN NamedCitations :
            LET a == ArgumentsOf(NamedCitations[i]) IN
            /\ a = ArgsBroken =>
                    /\ i \in DOMAIN reply.sources
                    /\ reply.sources[i] = [title |-> "Citation", url |-> "#"]
            /\ a = ArgsFull =>
                    /\ i \in DOMAIN reply.sources
                    /\ reply.sources[i] = [title |-> "TLA+ home",
                                           url |-> "https://lamport.org/tla",
                                           snippet |-> "A language"]
            /\ a = ArgsUrlOnly =>
                    /\ i \in DOMAIN reply.sources
                    /\ reply.sources[i].url = "https://example.org"
                    /\ DOMAIN reply.sources[i] = {"title", "url", "snippet"}

\* The arguments of an entry that JSON.parse rejects.
Unparsable(a) == a \in {ArgsBroken, "<undefined>"}

\* C25 as claimed: an entry whose arguments fail to parse gets the title
\* "Source" and the url "".
C25_ParseFailureGivesSourceDefaults ==
    (PplxDecoded /\ ToolCallsWellFormed)
    => \A i \in DOMAIN CitationEntries :
            Unparsable(ArgumentsOf(CitationEntries[i]))
                => (reply.sources[i].title = "Source" /\ reply.sources[i].url = "")

\* C25 as amended: an entry whose arguments fail to parse gets the title
\* "Citation" and the url "#", and no snippet; "Source" and the empty string
\* are what a title, url or snippet missing from arguments that did parse
\* default to.
C25_ParseFailureGivesCitationHash ==
    (PplxDecoded /\ ToolCallsWellFormed)
    => \A i \in DOMAIN CitationEntries :
            LET a == ArgumentsOf(CitationEntries[i]) IN
            /\ Unparsable(a) =>
                    /\ reply.sources[i].title = "Citation"
                    /\ reply.sources[i].url = "#"
                    /\ ~Has(reply.sources[i], "snippet")
            /\ a = ArgsUrlOnly =>
                    (reply.sources[i].title = "Source" /\ reply.sources[i].snippet = "")

C25_Witness ==
    /\ PplxDecoded
    /\ ToolCallsWellFormed
    /\ Len(CitationEntries) = 2
    /\ ArgumentsOf(CitationEntries[1]) = ArgsUrlOnly
    /\ ArgumentsOf(CitationEntries[2]) = "<undefined>"
    /\ reply.sources = <<[title |-> "Source", url |-> "https://example.org", snippet |-> ""],
                         [title |-> "Citation", url |-> "#"]>>

\* C26: a successful document with a first choice is answered with status
\* 200 and that choice's content, whatever its tool_calls hold.
C26_BadToolCallsNeverFail ==
    PplxDecoded => (reply.status = 200 /\ reply.answer = FirstMessage.content)

C26_Witness ==
    /\ PplxDecoded
    /\ Has(FirstMessage, "tool_calls")
    /\ Len(FirstMessage.tool_calls) = 2
    /\ ~Has(FirstMessage.tool_calls[2], "function")
    /\ ArgumentsOf(FirstMessage.tool_calls[1]) = ArgsNullLiteral
    /\ reply.status = 200
    /\ reply.sources = <<>>

\* C30: when the first choice of the successful document echoes the content
\* of the user message of the outbound payload, the answer returned to the
\* client is the query of the request, unchanged.
C30_QueryRoundTrip ==
    (PplxDecoded /\ FirstMessage.content = payload.messages[2].content)
    => reply.answer = request.body.query

C30_Witness ==
    /\ PplxDecoded
    /\ Len(data.choices) = 2
    /\ FirstMessage.content = payload.messages[2].content
    /\ reply.answer = "what is tla+"

-----------------------------------------------------------------------------
(* Properties of the gates and of the Groq 404 reply *)

NetlifyNotFoundText(m) ==
    "Model not found. The model \"" \o m \o
    "\" may not be available. Try one of the Groq supported models like \"llama-3-70b-chat\"."

Part3NotFoundText(m) == "The model \"" \o m \o "\" is not available."

\* C27: when the upstream's answer to the last call is 404, a Groq handler
\* replies 404 with its "model not found" message interpolating the `model`
\* of the inbound request.
C27_NotFoundNamesRequestedModel ==
    (/\ Retrying
     /\ pc = "done"
     /\ script[calls] = St(404)
     /\ Has(request.body, "model"))
    => /\ reply.status = 404
       /\ reply.message \in {NetlifyNotFoundText(request.body.model),
                             Part3NotFoundText(request.body.model)}

\* C28: a POST whose body is not valid JSON (the key being set) is answered
\* 400 with error "Invalid JSON in request body", and no outbound call is
\* made.
C28_InvalidJsonIs400 ==
    (request.method = "POST" /\ ~request.parses /\ apiKey # ""
     /\ pc \notin {"start", "parse"})
    => /\ pc = "done"
       /\ calls = 0
       /\ reply.status = 400
       /\ reply.error = "Invalid JSON in request body"

CorsHeaderNames ==
    {"Access-Control-Allow-Origin", "Access-Control-Allow-Methods",
     "Access-Control-Allow-Headers"}

\* C29: a request that is neither OPTIONS nor POST is answered 405 with the
\* header Allow: POST and nothing else is done for it; an OPTIONS request is
\* answered 204 or 200 with the three Access-Control-Allow-* headers.
C29_MethodGate ==
    pc # "start" =>
        /\ request.method \notin {"OPTIONS", "POST"} =>
                /\ pc = "done"
                /\ calls = 0
                /\ payload = NoPayload
                /\ reply.status = 405
                /\ "Allow" \in DOMAIN reply.headers
                /\ reply.headers["Allow"] = "POST"
        /\ request.method = "OPTIONS" =>
                /\ pc = "done"
                /\ calls = 0
                /\ reply.status \in {200, 204}
                /\ CorsHeaderNames \subseteq DOMAIN reply.headers

-----------------------------------------------------------------------------
(* Further properties of the retry loops and of the defaults *)

\* C31: in the retrying handlers the backoff waits of one request strictly
\* increase from retry to retry and grow linearly, by the same step each
\* time: the wait before the 2nd attempt is 3000 ms, the wait before the 3rd
\* attempt is 6000 ms.
C31_BackoffGrowsLinearly ==
    Retrying =>
        /\ \A i \in DOMAIN waits : \A j \in DOMAIN waits : i < j => waits[i] < waits[j]
        /\ \A i \in DOMAIN waits : i > 1 => waits[i] - waits[i - 1] = waits[1]
        /\ calls >= 2 => waits[1] = 3000
        /\ calls >= 3 => waits[2] = 6000

C31_Witness ==
    /\ Retrying
    /\ calls = 3
    /\ Len(waits) = 3
    /\ waits[3] - waits[2] = waits[2] - waits[1]

\* C32: when the request omits max_tokens, every chat handler sends
\* max_tokens = 4096 upstream.
C32_DefaultMaxTokensIs4096 ==
    (/\ handler \in ChatHandlers
     /\ calls > 0
     /\ ~Has(request.body, "max_tokens"))
    => payload.max_tokens = 4096

-----------------------------------------------------------------------------
(* The relay as a state machine *)

\* Operations the outbound stream has taken or still holds.
TakenOrQueued == Len(out) + Len(wq) + (IF wstate = "closed" THEN 1 ELSE 0)

\* An operation the relay called on the writer was rejected.
WriteFailed == Len(issued) > TakenOrQueued

CloseIssued == \E i \in DOMAIN issued : issued[i] = CLOSE

\* The relay's Closed state: it has called writer.close(), or one of its
\* writes has failed.
RelayClosed == handler \in StreamHandlers /\ (CloseIssued \/ WriteFailed)

\* A step in which the relay calls reader.read().
ReadIssued == pc' = "read" /\ (pc # "read" \/ up' # up)

\* C33: Closed is absorbing.  Once the relay has closed the outbound writer,
\* or an outbound write has failed, it calls neither write nor close on the
\* writer again and issues no further upstream read.
C33_ClosedIsAbsorbing ==
    [][RelayClosed => (issued' = issued /\ ~ReadIssued)]_vars

\* How many events of the outbound stream are the terminator.
DoneMarkersDelivered == Cardinality({i \in DOMAIN out : out[i] = DoneMarker})

\* C34: whatever the upstream body held, its own `data: [DONE]` included, an
\* outbound stream closed after the upstream ended contains the
\* `data: [DONE]` marker exactly once, as its last event.
C34_DoneExactlyOnce ==
    (Relaying /\ upState = "ended" /\ wstate = "closed")
    => (/\ DoneMarkersDelivered = 1
        /\ out[Len(out)] = DoneMarker)

\* C35: in the retrying handlers every backoff wait is followed by another
\* outbound attempt: when a wait ends, the next call goes out.
C35_EveryWaitPrecedesAnAttempt ==
    [][(Retrying /\ pc = "sleep") => (calls' = calls + 1 /\ pc' = "fetch")]_vars

-----------------------------------------------------------------------------
(* Termination *)

Answered == reply # NoReply

\* C36: every inbound request eventually receives a response, and exactly
\* one: the retry loops terminate, and the response once chosen is never
\* replaced, in particular not by an upstream response that arrives after
\* the 28 s timeout of the Fireworks buffered handler has won the race.
C36_ExactlyOneResponse ==
    /\ <>Answered
    /\ [][Answered => reply' = reply]_vars

-----------------------------------------------------------------------------
(* The sources list of the Perplexity handlers *)

\* C37: the returned sources have exactly one element per tool call whose
\* function name is "citation" or "web_search", in the order of the
\* upstream's tool_calls; other tool calls contribute nothing, and a message
\* without tool_calls yields the empty list.
C37_OneSourcePerCitationCall ==
    PplxDecoded =>
        /\ Len(reply.sources) = Len(NamedCitations)
        /\ \A i \in DOMAIN NamedCitations :
                reply.sources[i] = DecodeCitation(NamedCitations[i])

-----------------------------------------------------------------------------
(* `response` of the Groq handler of netlify/functions/api-proxy.js *)

NoResponseError ==
    [name |-> "Error",
     message |-> "Failed to get response from Groq API after multiple attempts"]

\* The retry loop has been left without throwing: the handler is reading,
\* or has read, the body of `response`.
NetlifyLoopExited == handler = "groq_netlify" /\ (pc = "body" \/ body # "none")

\* C39: whenever the retry loop exits without throwing, `response` is the
\* response of the last attempt made, never one recorded by an earlier
\* attempt, and the handler never answers 'Failed to get response from Groq
\* API after multiple attempts'.
C39_ResponseIsOfLastAttempt ==
    /\ NetlifyLoopExited => response = script[calls]
    /\ (handler = "groq_netlify" /\ pc = "done") => reply # NetlifyCatch(NoResponseError)

C39_Witness ==
    /\ NetlifyLoopExited
    /\ calls = 3
    /\ script[1].kind = "status"
    /\ script[2].kind = "throw"
    /\ response = script[3]
    /\ pc = "done"

====
